---------------------------- MODULE Spec2Model ----------------------------
(***************************************************************************)
(* A model of swaggerpy3: the processor walk over a Swagger 1.x document   *)
(* (processors.py: ParsingContext, SwaggerProcessor.apply,                 *)
(* WebsocketProcessor) and the invocation engine of the dynamic client     *)
(* (client.py: Operation.__init__, Operation.__call__).                    *)
(*                                                                         *)
(* Spec       : one apply() of a processor over one document, one loop     *)
(*              step per action.                                           *)
(* SpecInvoke : construction of an Operation and a sequence of calls.      *)
(***************************************************************************)
EXTENDS Integers, Sequences, FiniteSets, TLC

VARIABLES
    \* ---- the walk (processors.py) ----
    processor,   \* class of the processor whose apply() runs
    doc,         \* the document, mutated in place by the hooks
    context,     \* the ParsingContext of this apply(): type_stack, id_stack, args
    ix,          \* loop positions of the nested for loops of apply()
    pc,          \* where apply() is
    error,       \* the exception that left apply(), or NoError
    hooks,       \* every hook invocation so far, with the context it saw
    \* ---- the invocation engine (client.py) ----
    op,          \* the Operation object: uri, json (or NoOperation)
    heap,        \* the caller's dict objects, by reference
    kwargs,      \* the named arguments of the last call
    outcome      \* what the last call did: a transport call or a raise

walkVars == <<processor, doc, context, ix, pc, error, hooks>>
callVars == <<op, heap, kwargs, outcome>>
vars == <<processor, doc, context, ix, pc, error, hooks, op, heap, kwargs, outcome>>

\* A dict key that is not there (Python: `k not in d`, d.get(k) is None).
Absent == "<absent>"

\* No Operation object has been built yet.
NoOperation ==
    [uri |-> <<>>,
     json |-> [nickname |-> "", httpMethod |-> "", is_websocket |-> Absent,
               parameters |-> <<>>]]

-----------------------------------------------------------------------------
(* Bounds *)

\* Longest resources['apis'] array of a document.
MaxListing == 2

-----------------------------------------------------------------------------
(* Documents *)

Param(name, paramType, required) ==
    [name |-> name, paramType |-> paramType, required |-> required]

Response(code) == [code |-> code]

OperationDecl(nickname, httpMethod, upgrade, parameters, errorResponses) ==
    [nickname |-> nickname, httpMethod |-> httpMethod, upgrade |-> upgrade,
     parameters |-> parameters, errorResponses |-> errorResponses,
     is_websocket |-> Absent]

ApiEntry(path, operations) ==
    [path |-> path, operations |-> operations, has_websocket |-> Absent]

Property(name) == [name |-> name]

Model(id, properties) == [id |-> id, properties |-> properties]

ApiDeclaration(apis, models) == [apis |-> apis, models |-> models]

ListingApi(path, url, decl) == [path |-> path, url |-> url, api_declaration |-> decl]

getPet == OperationDecl("getPet", "GET", Absent,
                        <<Param("id", "path", "True")>>, <<Response(404)>>)
addPet == OperationDecl("addPet", "POST", Absent,
                        <<Param("body", "body", "True"), Param("tag", "query", "False")>>,
                        <<Response(400), Response(500)>>)
events == OperationDecl("events", "GET", "websocket",
                        <<Param("app", "query", "True")>>, <<>>)
\* a websocket upgrade on a method other than GET
pushEvents == OperationDecl("pushEvents", "POST", "websocket", <<>>, <<Response(500)>>)

apiPet    == ApiEntry("/pets/{id}", <<getPet, addPet>>)
apiEvents == ApiEntry("/events", <<events>>)
apiMixed  == ApiEntry("/mixed", <<getPet, events>>)
apiBad    == ApiEntry("/push", <<pushEvents, getPet>>)
apiEmpty  == ApiEntry("/none", <<>>)

modelPet == Model("Pet", <<Property("id"), Property("name")>>)
modelTag == Model("Tag", <<>>)
\* a property object without a 'name' field, as Swagger 1.x property maps have
modelRaw == Model("Raw", <<Property("id"), Property(Absent)>>)

ApiLists ==
    { <<>>, <<apiPet>>, <<apiPet, apiEvents>>, <<apiEvents, apiPet>>,
      <<apiMixed, apiEmpty>>, <<apiPet, apiBad>> }

ModelLists == { <<>>, <<modelPet, modelTag>>, <<modelTag, modelPet>>, <<modelRaw>> }

Declarations ==
    { ApiDeclaration(a, <<>>) : a \in ApiLists }
    \cup { ApiDeclaration(<<apiPet, apiEvents>>, m) : m \in ModelLists }

ListingApis ==
    { ListingApi("/api-docs/pets.json", Absent, d) : d \in Declarations }
    \cup { ListingApi("/api-docs/events.json", "http://h/events.json",
                      ApiDeclaration(<<apiEvents>>, <<modelTag>>)),
           \* a listing entry without a 'path' field
           ListingApi(Absent, Absent, ApiDeclaration(<<apiPet>>, <<>>)) }

SeqsUpTo(S, n) == UNION { [1..k -> S] : k \in 0..n }

Documents ==
    { [url |-> u, apis |-> l] :
        u \in {Absent, "http://h/resources.json"}, l \in SeqsUpTo(ListingApis, MaxListing) }

-----------------------------------------------------------------------------
(* ParsingContext *)

\* What args binds a kind to: the node at an index path of the document, or
\* the context object itself.
NodeRef(class, path) == [ref |-> class, path |-> path]
ContextRef == NodeRef("ParsingContext", <<>>)

\* ParsingContext.__init__
NewContext ==
    [type_stack |-> <<>>, id_stack |-> <<>>,
     args |-> [k \in {"context"} |-> ContextRef]]

\* ParsingContext.is_empty
is_empty(c) == c.type_stack = <<>> /\ c.id_stack = <<>>

\* ParsingContext.push_str
push_str(c, obj_type, json, id_string) ==
    [type_stack |-> Append(c.type_stack, obj_type),
     id_stack   |-> Append(c.id_stack, id_string),
     args       |-> [k \in DOMAIN c.args \cup {obj_type} |->
                        IF k = obj_type THEN json ELSE c.args[k]]]

Front(s) == SubSeq(s, 1, Len(s) - 1)
Last(s) == s[Len(s)]

\* A pop that takes the kind off the stacks and leaves its binding in args.
pop_KeepsBinding(c) ==
    [type_stack |-> Front(c.type_stack),
     id_stack   |-> Front(c.id_stack),
     args       |-> c.args]

\* ParsingContext.pop
pop(c) ==
    [type_stack |-> Front(c.type_stack),
     id_stack   |-> Front(c.id_stack),
     args       |-> [k \in DOMAIN c.args \ {Last(c.type_stack)} |-> c.args[k]]]

\* ParsingContext.push raises when the id field is not in the node.
PushRaises(id_value) == id_value = Absent

MissingIdField(id_field) ==
    [exc |-> "BaseException", msg |-> "Missing id_field: " \o id_field]

\* `x.get('url') or default`
GetOr(value, default) == IF value = Absent \/ value = "" THEN default ELSE value

-----------------------------------------------------------------------------
(* Exceptions *)

NoError == [exc |-> "none", msg |-> ""]

\* SwaggerError is a coroutine function of one parameter (error); calling it
\* with two arguments raises TypeError before anything is awaited or raised.
SwaggerErrorParams == 1

SwaggerError(nargs, message) ==
    IF nargs # SwaggerErrorParams
    THEN [exc |-> "TypeError",
          msg |-> "SwaggerError() takes 1 positional argument but 2 were given"]
    ELSE \* `raise <coroutine object>`
         [exc |-> "TypeError", msg |-> "exceptions must derive from BaseException"]

\* A hook called with **context.args whose keys are not its parameters.
BadCall(hook) == [exc |-> "TypeError", msg |-> hook \o "() got unexpected or missing arguments"]

-----------------------------------------------------------------------------
(* Hooks *)

\* The keyword parameters of each hook.
Signature(hook) ==
    CASE hook = "process_resource_listing"     -> {"resources", "context"}
      [] hook = "process_resource_listing_api" -> {"resources", "listing_api", "context"}
      [] hook = "process_api_declaration"      -> {"resources", "resource", "context"}
      [] hook = "process_resource_api"         -> {"resources", "resource", "api", "context"}
      [] hook = "process_operation"            ->
             {"resources", "resource", "api", "operation", "context"}
      [] hook = "process_parameter"            ->
             {"resources", "resource", "api", "operation", "parameter", "context"}
      [] hook = "process_error_response"       ->
             {"resources", "resource", "api", "operation", "error_response", "context"}
      [] hook = "process_model"                -> {"resources", "resource", "model", "context"}
      [] hook = "process_property"             ->
             {"resources", "resource", "model", "prop", "context"}

\* The record of one hook invocation: the hook and the context it was given.
Invocation(hook, c) ==
    [hook |-> hook, type_stack |-> c.type_stack, id_stack |-> c.id_stack, args |-> c.args]

\* WebsocketProcessor.process_resource_api: api.setdefault('has_websocket', False)
WsProcessResourceApi(api) ==
    [api EXCEPT !.has_websocket = IF @ = Absent THEN "False" ELSE @]

\* WebsocketProcessor.process_operation, on the operation
WsIsWebsocket(operation) == IF operation.upgrade = "websocket" THEN "True" ELSE "False"

WsProcessOperationOp(operation) ==
    [operation EXCEPT !.is_websocket = WsIsWebsocket(operation)]

\* WebsocketProcessor.process_operation, on the owning api entry
WsProcessOperationApi(api, operation) ==
    IF WsIsWebsocket(operation) = "True" THEN [api EXCEPT !.has_websocket = "True"] ELSE api

\* WebsocketProcessor.process_operation: the exception it leaves with, or NoError
WsProcessOperationError(operation) ==
    IF WsIsWebsocket(operation) = "True" /\ operation.httpMethod # "GET"
    THEN SwaggerError(2, "upgrade: websocket is only valid on GET operations")
    ELSE NoError

-----------------------------------------------------------------------------
(* SwaggerProcessor.apply *)

Processors == {"SwaggerProcessor", "WebsocketProcessor"}

Init ==
    /\ processor \in Processors
    /\ doc \in Documents
    /\ context = NewContext
    /\ ix = [li |-> 0, ai |-> 0, oi |-> 0, pi |-> 0, ei |-> 0, mi |-> 0, qi |-> 0]
    /\ pc = "start"
    /\ error = NoError
    /\ hooks = <<>>
    /\ op = NoOperation
    /\ heap = <<>>
    /\ kwargs = {}
    /\ outcome = Absent

\* A walker that takes resources['apis'] from its end.
CurListingApi_Reversed == doc.apis[Len(doc.apis) + 1 - ix.li]

\* The nodes the loops of apply() are at.
CurListingApi   == doc.apis[ix.li]
CurDeclaration  == CurListingApi.api_declaration
CurApi          == CurDeclaration.apis[ix.ai]
CurOperation    == CurApi.operations[ix.oi]
CurParameter    == CurOperation.parameters[ix.pi]
CurResponse     == CurOperation.errorResponses[ix.ei]
CurModel        == CurDeclaration.models[ix.mi]
CurProperty     == CurModel.properties[ix.qi]

\* The document with the api entry / the operation the loops are at replaced.
WithApi(api) ==
    [doc EXCEPT !.apis[ix.li].api_declaration.apis[ix.ai] = api]
WithOperation(d, operation) ==
    [d EXCEPT !.apis[ix.li].api_declaration.apis[ix.ai].operations[ix.oi] = operation]

\* The exception of calling `hook(**c.args)` whose body leaves with bodyError.
CallError(hook, c, bodyError) ==
    IF DOMAIN c.args # Signature(hook) THEN BadCall(hook) ELSE bodyError

\* One `push; hook(**context.args)` of apply(), followed by `pop` for a node
\* without children (leaf): the statements run up to the first that raises.
\*   newDoc    : the document as the hook's body leaves it
\*   bodyError : the exception the hook's body raises, or NoError
Visit(obj_type, ref, id_field, id_value, id_string, hook, leaf, newDoc, bodyError, nextPc, nextIx) ==
    IF PushRaises(id_value)
    THEN /\ pc' = "failed"
         /\ error' = MissingIdField(id_field)
         /\ UNCHANGED <<processor, doc, context, ix, hooks>>
    ELSE LET c1 == push_str(context, obj_type, ref, id_string)
             called == DOMAIN c1.args = Signature(hook)
             err == CallError(hook, c1, bodyError)
         IN  /\ hooks' = IF called THEN Append(hooks, Invocation(hook, c1)) ELSE hooks
             /\ doc' = IF called THEN newDoc ELSE doc
             /\ IF err = NoError
                THEN /\ context' = IF leaf THEN pop(c1) ELSE c1
                     /\ pc' = nextPc
                     /\ ix' = nextIx
                     /\ error' = error
                ELSE /\ context' = c1
                     /\ pc' = "failed"
                     /\ error' = err
                     /\ ix' = ix
             /\ UNCHANGED processor

\* lines 91-97
ApplyStart ==
    /\ pc = "start"
    /\ Visit("resources", NodeRef("ResourceListing", <<>>), "url",
             "json:resource_listing", GetOr(doc.url, "json:resource_listing"),
             "process_resource_listing", FALSE, doc, NoError,
             "listing_loop", [ix EXCEPT !.li = 1])
    /\ UNCHANGED callVars

\* lines 98-101
VisitListingApi ==
    /\ pc = "listing_loop"
    /\ ix.li <= Len(doc.apis)
    /\ Visit("listing_api", NodeRef("ListingApi", <<ix.li>>), "path",
             CurListingApi.path, CurListingApi.path,
             "process_resource_listing_api", TRUE, doc, NoError,
             "declaration", ix)
    /\ UNCHANGED callVars

\* lines 103-105
VisitApiDeclaration ==
    /\ pc = "declaration"
    /\ Visit("resource", NodeRef("ApiDeclaration", <<ix.li>>), "url",
             "json:api_declaration", GetOr(CurListingApi.url, "json:api_declaration"),
             "process_api_declaration", FALSE, doc, NoError,
             "api_loop", [ix EXCEPT !.ai = 1])
    /\ UNCHANGED callVars

\* lines 107-109
VisitApi ==
    /\ pc = "api_loop"
    /\ ix.ai <= Len(CurDeclaration.apis)
    /\ Visit("api", NodeRef("ApiEntry", <<ix.li, ix.ai>>), "path",
             CurApi.path, CurApi.path,
             "process_resource_api", FALSE,
             IF processor = "WebsocketProcessor"
                 THEN WithApi(WsProcessResourceApi(CurApi)) ELSE doc,
             NoError,
             "op_loop", [ix EXCEPT !.oi = 1])
    /\ UNCHANGED callVars

\* lines 110-112
VisitOperation ==
    /\ pc = "op_loop"
    /\ ix.oi <= Len(CurApi.operations)
    /\ Visit("operation", NodeRef("Operation", <<ix.li, ix.ai, ix.oi>>), "nickname",
             CurOperation.nickname, CurOperation.nickname,
             "process_operation", FALSE,
             IF processor = "WebsocketProcessor"
                 THEN WithOperation(WithApi(WsProcessOperationApi(CurApi, CurOperation)),
                                    WsProcessOperationOp(CurOperation))
                 ELSE doc,
             IF processor = "WebsocketProcessor"
                 THEN WsProcessOperationError(CurOperation) ELSE NoError,
             "param_loop", [ix EXCEPT !.pi = 1])
    /\ UNCHANGED callVars

\* lines 113-116
VisitParameter ==
    /\ pc = "param_loop"
    /\ ix.pi <= Len(CurOperation.parameters)
    /\ Visit("parameter", NodeRef("Parameter", <<ix.li, ix.ai, ix.oi, ix.pi>>), "name",
             CurParameter.name, CurParameter.name,
             "process_parameter", TRUE, doc, NoError,
             "param_loop", [ix EXCEPT !.pi = @ + 1])
    /\ UNCHANGED callVars

\* line 117: the parameters are exhausted
EndParameterLoop ==
    /\ pc = "param_loop"
    /\ ix.pi > Len(CurOperation.parameters)
    /\ pc' = "response_loop"
    /\ ix' = [ix EXCEPT !.ei = 1]
    /\ UNCHANGED <<processor, doc, context, error, hooks>>
    /\ UNCHANGED callVars

\* lines 117-120
VisitErrorResponse ==
    /\ pc = "response_loop"
    /\ ix.ei <= Len(CurOperation.errorResponses)
    /\ Visit("error_response", NodeRef("Response", <<ix.li, ix.ai, ix.oi, ix.ei>>), "code",
             "code", ToString(CurResponse.code),
             "process_error_response", TRUE, doc, NoError,
             "response_loop", [ix EXCEPT !.ei = @ + 1])
    /\ UNCHANGED callVars

\* line 121: the error responses are exhausted; pop the operation
EndErrorResponseLoop ==
    /\ pc = "response_loop"
    /\ ix.ei > Len(CurOperation.errorResponses)
    /\ context' = pop(context)
    /\ pc' = "op_loop"
    /\ ix' = [ix EXCEPT !.oi = @ + 1]
    /\ UNCHANGED <<processor, doc, error, hooks>>
    /\ UNCHANGED callVars

\* line 122: the operations are exhausted; pop the api entry
EndOperationLoop ==
    /\ pc = "op_loop"
    /\ ix.oi > Len(CurApi.operations)
    /\ context' = pop(context)
    /\ pc' = "api_loop"
    /\ ix' = [ix EXCEPT !.ai = @ + 1]
    /\ UNCHANGED <<processor, doc, error, hooks>>
    /\ UNCHANGED callVars

\* line 123: the api entries are exhausted; on to the models
EndApiLoop ==
    /\ pc = "api_loop"
    /\ ix.ai > Len(CurDeclaration.apis)
    /\ pc' = "model_loop"
    /\ ix' = [ix EXCEPT !.mi = 1]
    /\ UNCHANGED <<processor, doc, context, error, hooks>>
    /\ UNCHANGED callVars

\* lines 124-126
VisitModel ==
    /\ pc = "model_loop"
    /\ ix.mi <= Len(CurDeclaration.models)
    /\ Visit("model", NodeRef("Model", <<ix.li, ix.mi>>), "id",
             CurModel.id, CurModel.id,
             "process_model", FALSE, doc, NoError,
             "prop_loop", [ix EXCEPT !.qi = 1])
    /\ UNCHANGED callVars

\* lines 127-130
VisitProperty ==
    /\ pc = "prop_loop"
    /\ ix.qi <= Len(CurModel.properties)
    /\ Visit("prop", NodeRef("Property", <<ix.li, ix.mi, ix.qi>>), "name",
             CurProperty.name, CurProperty.name,
             "process_property", TRUE, doc, NoError,
             "prop_loop", [ix EXCEPT !.qi = @ + 1])
    /\ UNCHANGED callVars

\* line 131: the properties are exhausted; pop the model
EndPropertyLoop ==
    /\ pc = "prop_loop"
    /\ ix.qi > Len(CurModel.properties)
    /\ context' = pop(context)
    /\ pc' = "model_loop"
    /\ ix' = [ix EXCEPT !.mi = @ + 1]
    /\ UNCHANGED <<processor, doc, error, hooks>>
    /\ UNCHANGED callVars

\* line 132: the models are exhausted; pop the declaration
EndModelLoop ==
    /\ pc = "model_loop"
    /\ ix.mi > Len(CurDeclaration.models)
    /\ context' = pop(context)
    /\ pc' = "listing_loop"
    /\ ix' = [ix EXCEPT !.li = @ + 1]
    /\ UNCHANGED <<processor, doc, error, hooks>>
    /\ UNCHANGED callVars

\* lines 133-134: the listing is exhausted; pop the listing, assert is_empty()
ApplyEnd ==
    /\ pc = "listing_loop"
    /\ ix.li > Len(doc.apis)
    /\ context' = pop(context)
    /\ IF is_empty(pop(context))
       THEN pc' = "done" /\ error' = error
       ELSE pc' = "failed" /\ error' = [exc |-> "AssertionError", msg |-> "Expected context to be empty"]
    /\ UNCHANGED <<processor, doc, ix, hooks>>
    /\ UNCHANGED callVars

Next ==
    \/ ApplyStart
    \/ VisitListingApi
    \/ VisitApiDeclaration
    \/ VisitApi
    \/ VisitOperation
    \/ VisitParameter
    \/ EndParameterLoop
    \/ VisitErrorResponse
    \/ EndErrorResponseLoop
    \/ EndOperationLoop
    \/ EndApiLoop
    \/ VisitModel
    \/ VisitProperty
    \/ EndPropertyLoop
    \/ EndModelLoop
    \/ ApplyEnd

Spec == Init /\ [][Next]_vars

-----------------------------------------------------------------------------
(* Properties of the walk *)

AllOperationPaths ==
    { <<l, a, o>> \in (1..MaxListing + 1) \X (1..3) \X (1..3) :
        /\ l <= Len(doc.apis)
        /\ a <= Len(doc.apis[l].api_declaration.apis)
        /\ o <= Len(doc.apis[l].api_declaration.apis[a].operations) }

ApiAt(l, a) == doc.apis[l].api_declaration.apis[a]
OperationAt(l, a, o) == ApiAt(l, a).operations[o]

Finished == pc \in {"done", "failed"}

\* C1: after apply() completes, normally or by an exception of a hook or of
\* push, every push of the walk has been matched by a pop: type_stack and
\* id_stack are both empty (and is_empty() is true on success).
StackBalancedAfterApply ==
    Finished => (context.type_stack = <<>> /\ context.id_stack = <<>>)

\* The part of C1 the code keeps: a walk that returns normally leaves the
\* context empty, and the closing assertion never fires.
StackBalancedOnSuccess ==
    /\ pc = "done" => is_empty(context)
    /\ error.exc # "AssertionError"

RECURSIVE Flatten(_)
Flatten(ss) == IF ss = <<>> THEN <<>> ELSE Head(ss) \o Flatten(Tail(ss))

Call(hook, ids) == [hook |-> hook, id_stack |-> ids]

\* The hook calls of one operation: itself, its parameters, its responses.
OperationCalls(ids, o) ==
    LET mine == Append(ids, o.nickname)
    IN  <<Call("process_operation", mine)>>
        \o [i \in 1..Len(o.parameters) |->
               Call("process_parameter", Append(mine, o.parameters[i].name))]
        \o [i \in 1..Len(o.errorResponses) |->
               Call("process_error_response",
                    Append(mine, ToString(o.errorResponses[i].code)))]

\* The hook calls of one api entry: itself, then its operations in order.
ApiCalls(ids, a) ==
    LET mine == Append(ids, a.path)
    IN  <<Call("process_resource_api", mine)>>
        \o Flatten([i \in 1..Len(a.operations) |-> OperationCalls(mine, a.operations[i])])

\* The hook calls of one model: itself, then its properties in order.
ModelCalls(ids, m) ==
    LET mine == Append(ids, m.id)
    IN  <<Call("process_model", mine)>>
        \o [i \in 1..Len(m.properties) |->
               Call("process_property", Append(mine, m.properties[i].name))]

\* The hook calls of one listing entry, whatever its place in the array.
ListingCalls(ids, la) ==
    LET decl == la.api_declaration
        mine == Append(ids, GetOr(la.url, "json:api_declaration"))
    IN  <<Call("process_resource_listing_api", Append(ids, la.path)),
          Call("process_api_declaration", mine)>>
        \o Flatten([i \in 1..Len(decl.apis) |-> ApiCalls(mine, decl.apis[i])])
        \o Flatten([i \in 1..Len(decl.models) |-> ModelCalls(mine, decl.models[i])])

DocumentOrder(d) ==
    LET ids == <<GetOr(d.url, "json:resource_listing")>>
    IN  <<Call("process_resource_listing", ids)>>
        \o Flatten([i \in 1..Len(d.apis) |-> ListingCalls(ids, d.apis[i])])

IsPrefix(s, t) == Len(s) <= Len(t) /\ SubSeq(t, 1, Len(s)) = s

HookCalls == [i \in 1..Len(hooks) |-> Call(hooks[i].hook, hooks[i].id_stack)]

\* C2: the hooks are invoked in depth-first document order:
\* process_resource_listing first; then per listing entry, in array order,
\* process_resource_listing_api, process_api_declaration, per api entry
\* process_resource_api and per operation process_operation, its
\* process_parameter calls, its process_error_response calls; and after all
\* api entries of the declaration, per model process_model and its
\* process_property calls.  The calls of a listing entry (ListingCalls) do not
\* depend on its place, so reordering the apis array reorders the calls with
\* it.  A walk that an exception ends has made a prefix of these calls.
TraversalOrder ==
    /\ IsPrefix(HookCalls, DocumentOrder(doc))
    /\ pc = "done" => HookCalls = DocumentOrder(doc)

\* A finished walk over two different listing entries, that met operations,
\* parameters, error responses, models and properties.
TraversalOrderWitness ==
    /\ pc = "done"
    /\ Len(doc.apis) = 2
    /\ doc.apis[1] # doc.apis[2]
    /\ \A h \in {"process_parameter", "process_error_response", "process_property"} :
          \E i \in 1..Len(hooks) : hooks[i].hook = h

ValidationError(message) == [exc |-> "SwaggerError", msg |-> message]

\* C3: under WebsocketProcessor, an operation with upgrade = "websocket" whose
\* httpMethod is not GET makes apply fail with a validation error carrying
\* "upgrade: websocket is only valid on GET operations"; with GET the
\* operation's is_websocket and its api entry's has_websocket are true; an
\* operation without the upgrade has is_websocket false, and an api entry
\* with no websocket operation has has_websocket false.
WebsocketRule ==
    processor = "WebsocketProcessor" =>
        /\ \A p \in AllOperationPaths :
              LET o == OperationAt(p[1], p[2], p[3])
                  a == ApiAt(p[1], p[2])
              IN  o.is_websocket # Absent =>
                     /\ o.is_websocket = "True" <=> o.upgrade = "websocket"
                     /\ o.is_websocket = "True" => a.has_websocket = "True"
                     /\ (o.upgrade = "websocket" /\ o.httpMethod # "GET") =>
                            /\ pc = "failed"
                            /\ error = ValidationError(
                                   "upgrade: websocket is only valid on GET operations")
        /\ pc = "done" =>
              \A l \in 1..Len(doc.apis) :
                 \A a \in 1..Len(doc.apis[l].api_declaration.apis) :
                    LET api == ApiAt(l, a)
                    IN  api.has_websocket =
                           IF \E o \in 1..Len(api.operations) :
                                 api.operations[o].upgrade = "websocket"
                           THEN "True" ELSE "False"

\* The part of C3 the code keeps: the flags, and that the walk fails (with
\* whatever exception) exactly at a websocket upgrade that is not a GET.
WebsocketFlags ==
    processor = "WebsocketProcessor" =>
        /\ \A p \in AllOperationPaths :
              LET o == OperationAt(p[1], p[2], p[3])
                  a == ApiAt(p[1], p[2])
              IN  o.is_websocket # Absent =>
                     /\ o.is_websocket = "True" <=> o.upgrade = "websocket"
                     /\ o.is_websocket = "True" => a.has_websocket = "True"
                     /\ (o.upgrade = "websocket" /\ o.httpMethod # "GET") =>
                            /\ pc = "failed"
                            /\ error.exc = "TypeError"
        /\ pc = "done" =>
              \A l \in 1..Len(doc.apis) :
                 \A a \in 1..Len(doc.apis[l].api_declaration.apis) :
                    LET api == ApiAt(l, a)
                    IN  api.has_websocket =
                           IF \E o \in 1..Len(api.operations) :
                                 api.operations[o].upgrade = "websocket"
                           THEN "True" ELSE "False"

Range(s) == {s[i] : i \in 1..Len(s)}

\* The loop variables of apply() in scope where `hook` is called, by kind, as
\* the nodes the loops are at.
LoopNodes(hook) ==
    LET resources == [k \in {"resources"} |-> NodeRef("ResourceListing", <<>>)]
        listing   == [k \in {"listing_api"} |-> NodeRef("ListingApi", <<ix.li>>)]
        resource  == [k \in {"resource"} |-> NodeRef("ApiDeclaration", <<ix.li>>)]
        api       == [k \in {"api"} |-> NodeRef("ApiEntry", <<ix.li, ix.ai>>)]
        operation == [k \in {"operation"} |-> NodeRef("Operation", <<ix.li, ix.ai, ix.oi>>)]
        parameter == [k \in {"parameter"} |->
                         NodeRef("Parameter", <<ix.li, ix.ai, ix.oi, ix.pi>>)]
        response  == [k \in {"error_response"} |->
                         NodeRef("Response", <<ix.li, ix.ai, ix.oi, ix.ei>>)]
        model     == [k \in {"model"} |-> NodeRef("Model", <<ix.li, ix.mi>>)]
        prop      == [k \in {"prop"} |-> NodeRef("Property", <<ix.li, ix.mi, ix.qi>>)]
    IN  CASE hook = "process_resource_listing"     -> resources
          [] hook = "process_resource_listing_api" -> resources @@ listing
          [] hook = "process_api_declaration"      -> resources @@ resource
          [] hook = "process_resource_api"         -> resources @@ resource @@ api
          [] hook = "process_operation"            ->
                 resources @@ resource @@ api @@ operation
          [] hook = "process_parameter"            ->
                 resources @@ resource @@ api @@ operation @@ parameter
          [] hook = "process_error_response"       ->
                 resources @@ resource @@ api @@ operation @@ response
          [] hook = "process_model"                -> resources @@ resource @@ model
          [] hook = "process_property"             ->
                 resources @@ resource @@ model @@ prop

\* The bindings of a context are the context object plus one entry per kind
\* on its type stack, and its two stacks have the same length.
BindingsMatchStack(c) ==
    /\ Len(c.type_stack) = Len(c.id_stack)
    /\ DOMAIN c.args = {"context"} \cup Range(c.type_stack)
    /\ c.args["context"] = ContextRef

\* In every state of the walk, and in every hook invocation made so far.
BindingsMatchStackAlways ==
    /\ BindingsMatchStack(context)
    /\ \A i \in 1..Len(hooks) : BindingsMatchStack(hooks[i])

\* A step that invokes a hook hands it, for each kind, the node the loops of
\* apply() are at: the node itself and all its ancestors.
HookGetsVisitedNodes ==
    Len(hooks') > Len(hooks) =>
        LET h == Last(hooks')
        IN  /\ Len(hooks') = Len(hooks) + 1
            /\ \A k \in Range(h.type_stack) : h.args[k] = LoopNodes(h.hook)[k]
            /\ Range(h.type_stack) = DOMAIN LoopNodes(h.hook)

\* C11: at every hook invocation during apply the bindings passed to the hook
\* are exactly the context object plus one entry per kind on the type stack,
\* each bound to the node being visited of that kind (the node and all its
\* ancestors); no binding of a popped kind remains and no kind on the stack
\* lacks a binding; type_stack and id_stack have equal length in every state.
ContextBindings ==
    /\ []BindingsMatchStackAlways
    /\ [][HookGetsVisitedNodes]_vars

\* process_parameter and process_property have both been invoked under the
\* second listing entry, after the first entry's listing_api, api, operation
\* and parameter were popped.
ContextBindingsWitness ==
    /\ \E i \in 1..Len(hooks) :
          /\ hooks[i].hook = "process_parameter"
          /\ hooks[i].args["parameter"].path[1] = 2
          /\ Len(hooks[i].type_stack) = 5
          /\ "listing_api" \notin DOMAIN hooks[i].args
    /\ \E i \in 1..Len(hooks) :
          /\ hooks[i].hook = "process_property"
          /\ hooks[i].args["prop"].path[1] = 2
          /\ "api" \notin DOMAIN hooks[i].args

-----------------------------------------------------------------------------
(* Python values and strings of the invocation engine *)

\* A str is a sequence of one-character strings.  Values are tagged:
\* None, a str, an int, a list of str, or a reference to a dict of the caller.
NoneV     == [t |-> "None", s |-> <<>>, n |-> 0, items |-> <<>>, ref |-> ""]
StrV(s)   == [t |-> "str",  s |-> s,    n |-> 0, items |-> <<>>, ref |-> ""]
IntV(n)   == [t |-> "int",  s |-> <<>>, n |-> n, items |-> <<>>, ref |-> ""]
ListV(l)  == [t |-> "list", s |-> <<>>, n |-> 0, items |-> l,    ref |-> ""]
DictV(r)  == [t |-> "dict", s |-> <<>>, n |-> 0, items |-> <<>>, ref |-> r]

Digit == <<"0", "1", "2", "3", "4", "5", "6", "7", "8", "9">>

\* str(n) of a natural number
RECURSIVE StrOfNat(_)
StrOfNat(n) == IF n < 10 THEN <<Digit[n + 1]>> ELSE StrOfNat(n \div 10) \o <<Digit[(n % 10) + 1]>>

\* sep.join(items)
RECURSIVE Join(_, _)
Join(items, sep) ==
    IF items = <<>> THEN <<>>
    ELSE IF Len(items) = 1 THEN items[1]
    ELSE items[1] \o sep \o Join(Tail(items), sep)

\* `if isinstance(value, list): value = ",".join(value)`
CollapseList(value) == IF value.t = "list" THEN StrV(Join(value.items, <<",">>)) ELSE value

\* str(value), of a str or an int
str(value) == IF value.t = "int" THEN StrOfNat(value.n) ELSE value.s

\* The characters urllib.parse.quote_plus leaves as they are.
AlwaysSafe ==
    { "a", "b", "c", "d", "e", "f", "g", "h", "i", "j", "k", "l", "m", "n", "o", "p",
      "q", "r", "s", "t", "u", "v", "w", "x", "y", "z",
      "0", "1", "2", "3", "4", "5", "6", "7", "8", "9", "_", ".", "-", "~" }

\* %XX of the other characters used here
PercentCode(c) ==
    CASE c = "/" -> <<"%", "2", "F">>
      [] c = ":" -> <<"%", "3", "A">>
      [] c = "," -> <<"%", "2", "C">>
      [] c = "{" -> <<"%", "7", "B">>
      [] c = "}" -> <<"%", "7", "D">>
      [] c = "+" -> <<"%", "2", "B">>
      [] c = "%" -> <<"%", "2", "5">>

\* urllib.parse.quote_plus
RECURSIVE quote_plus(_)
quote_plus(s) ==
    IF s = <<>> THEN <<>>
    ELSE (IF Head(s) = " " THEN <<"+">>
          ELSE IF Head(s) \in AlwaysSafe THEN <<Head(s)>>
          ELSE PercentCode(Head(s)))
         \o quote_plus(Tail(s))

StartsWith(s, prefix) == Len(prefix) <= Len(s) /\ SubSeq(s, 1, Len(prefix)) = prefix

\* str.replace(old, new), old not empty: every occurrence, left to right
RECURSIVE replace(_, _, _)
replace(s, old, new) ==
    IF Len(s) < Len(old) THEN s
    ELSE IF StartsWith(s, old)
         THEN new \o replace(SubSeq(s, Len(old) + 1, Len(s)), old, new)
         ELSE <<Head(s)>> \o replace(Tail(s), old, new)

\* re.sub('^http', "ws", uri)
FixUpScheme(uri) ==
    IF StartsWith(uri, <<"h", "t", "t", "p">>)
    THEN <<"w", "s">> \o SubSeq(uri, 5, Len(uri))
    ELSE uri

\* A dict is a set of <<key, value>> pairs, one per key.
Keys(d) == { p[1] : p \in d }
Get(d, k) == IF k \in Keys(d) THEN (CHOOSE p \in d : p[1] = k)[2] ELSE NoneV
Del(d, k) == { p \in d : p[1] # k }
Set(d, k, v) == Del(d, k) \cup {<<k, v>>}
\* dict.update(other)
Update(d, other) == { p \in d : p[1] \notin Keys(other) } \cup other

-----------------------------------------------------------------------------
(* Operation (client.py) *)

\* Most parameters of a declared operation, most named arguments of a call.
MaxParams == 2
MaxArgs == 2

\* Parameter names, as strs.
n_id == <<"i", "d">>
n_q  == <<"q">>
n_b  == <<"b">>
n_c  == <<"c">>
n_x  == <<"x">>   \* never declared

\* The parameter declarations: a path, a query and two body parameters;
\* 'required' is true, false, or not in the declaration.
ParamDecls ==
    { Param(n_id, "path", "True") }
    \cup { Param(n_q, "query", r) : r \in {"True", "False", Absent} }
    \cup { Param(n_b, "body", r) : r \in {"True", "False"} }
    \cup { Param(n_c, "body", "False") }

\* Parameter lists with distinct names.
ParamLists ==
    { l \in SeqsUpTo(ParamDecls, MaxParams) :
        \A i, j \in 1..Len(l) : i # j => l[i].name # l[j].name }

\* basePath + path of the api entry (Resource._build_operation)
UriHttp  == <<"h", "t", "t", "p", ":", "/", "/", "h", "/", "p", "/", "{", "i", "d", "}">>
UriHttps == <<"h", "t", "t", "p", "s", ":", "/", "/", "h", "/",
              "{", "i", "d", "}", "/", "{", "i", "d", "}">>

\* The operations a processed document gives: is_websocket is set, and a
\* websocket operation is a GET.
OperationJsons ==
    { [nickname |-> "op", httpMethod |-> m[1], is_websocket |-> m[2], parameters |-> l] :
        m \in {<<"GET", "False">>, <<"POST", "False">>, <<"GET", "True">>},
        l \in ParamLists }

\* The dicts a caller builds for a call, by reference.
DictIds == {"d0", "d1", "d2", "d3"}
CallerDicts ==
    [d0 |-> {}, d1 |-> {<<"x", 1>>}, d2 |-> {<<"y", 2>>}, d3 |-> {<<"x", 2>>}]

\* The values a caller gives each name.
ValuesOf(name) ==
    CASE name = n_id -> { StrV(<<"a", " ", "b">>), IntV(42), NoneV }
      [] name = n_q  -> { StrV(<<"a", "/", "b">>), ListV(<< <<"a">>, <<"b">> >>), NoneV }
      [] name = n_b  -> { DictV("d0"), DictV("d1"), StrV(<<"a">>), NoneV }
      [] name = n_c  -> { DictV("d1"), DictV("d2"), DictV("d3") }
      [] name = n_x  -> { StrV(<<"a">>) }

ArgNames == {n_id, n_q, n_b, n_c, n_x}

\* **kwargs: at most MaxArgs named arguments.
KwargsSets ==
    UNION { UNION { [ns -> UNION { ValuesOf(n) : n \in ns }] : ns \in { m \in SUBSET ArgNames : Cardinality(m) = k } }
            : k \in 0..MaxArgs }

AsDict(f) == { <<n, f[n]>> : n \in DOMAIN f }

Kwargs == { AsDict(f) : f \in { g \in KwargsSets : \A n \in DOMAIN g : g[n] \in ValuesOf(n) } }

-----------------------------------------------------------------------------
(* Operation.__call__ *)

\* Exceptions of a call: the type, which of its raises, the names it gives.
NoExc == [exc |-> "none", what |-> "", names |-> {}, nickname |-> ""]
Exc(type, what, names, nickname) ==
    [exc |-> type, what |-> what, names |-> names, nickname |-> nickname]

\* The names bound at module level in client.py (imports, log, the classes).
\* `json` is not one of them, nor a builtin.
ClientGlobals ==
    { "os", "re", "logging", "swaggerpy3", "urllib", "AsyncHttpClient",
      "WebsocketProcessor", "SwaggerProcessor", "log",
      "ClientProcessor", "Operation", "Resource", "SwaggerClient" }

NoData == "None"

\* `if data:` -- data is None, or a dict of the caller
Truthy(data, h) == data # NoData /\ h[data] # {}

\* The locals of __call__ as the loop over the parameters runs.
Locals(uri, kw, h) ==
    [uri |-> uri, params |-> {}, data |-> NoData, kwargs |-> kw, heap |-> h, exc |-> NoExc]

\* One iteration of `for param in self.json.get('parameters', [])`.
BindParam(param, st, nickname) ==
    LET pname == param.name
        value == CollapseList(Get(st.kwargs, pname))
    IN  IF value # NoneV
        THEN IF param.paramType = "path"
             THEN [st EXCEPT !.uri = replace(@, <<"{">> \o pname \o <<"}">>,
                                             quote_plus(str(value))),
                             !.kwargs = Del(@, pname)]
             ELSE IF param.paramType = "query"
             THEN [st EXCEPT !.params = Set(@, pname, value),
                             !.kwargs = Del(@, pname)]
             ELSE IF param.paramType = "body"
             THEN IF value.t = "dict"
                  THEN IF Truthy(st.data, st.heap)
                       THEN \* data.update(value): data is the caller's dict
                            [st EXCEPT !.heap[st.data] = Update(@, st.heap[value.ref]),
                                       !.kwargs = Del(@, pname)]
                       ELSE [st EXCEPT !.data = value.ref,
                                       !.kwargs = Del(@, pname)]
                  ELSE [st EXCEPT !.exc = Exc("TypeError", "body requires dict", {}, "")]
             ELSE [st EXCEPT !.exc = Exc("AssertionError", "unsupported paramType", {}, "")]
        ELSE IF param.required = Absent
             THEN [st EXCEPT !.exc = Exc("KeyError", "required", {}, "")]
             ELSE IF param.required = "True"
             THEN [st EXCEPT !.exc = Exc("TypeError", "missing required parameter",
                                         {pname}, nickname)]
             ELSE st

\* The loop, from parameter i on, up to the first raise.
RECURSIVE BindFrom(_, _, _, _)
BindFrom(parameters, i, st, nickname) ==
    IF i > Len(parameters) \/ st.exc # NoExc THEN st
    ELSE BindFrom(parameters, i + 1, BindParam(parameters[i], st, nickname), nickname)

\* What a call does in the end: it raises, or it calls the transport.
Raised(e) ==
    [kind |-> "raise", exc |-> e, method |-> "", uri |-> <<>>, params |-> {},
     data |-> [t |-> "None", obj |-> {}], headers |-> [t |-> "None", items |-> {}]]
TransportCall(kind, method, uri, params, data, headers) ==
    [kind |-> kind, exc |-> NoExc, method |-> method, uri |-> uri, params |-> params,
     data |-> data, headers |-> headers]

\* No call has been made yet.
NoOutcome == [Raised(NoExc) EXCEPT !.kind = "none"]

NoHeaders == [t |-> "None", items |-> {}]
JsonHeaders ==
    [t |-> "dict", items |-> {<<"Content-type", "application/json">>,
                              <<"Accept", "application/json">>}]

\* The `data` local as it reaches the transport when `if data:` was false.
RawData(data, h) ==
    IF data = NoData THEN [t |-> "None", obj |-> {}] ELSE [t |-> "dict", obj |-> h[data]]

\* json.dumps(data)
JsonDumps(obj) == [t |-> "json", obj |-> obj]

\* Lines 84-109, on the locals the loop left.
Dispatch(json, st) ==
    IF st.exc # NoExc THEN Raised(st.exc)
    ELSE IF st.kwargs # {}
    THEN Raised(Exc("TypeError", "does not have parameters", Keys(st.kwargs), json.nickname))
    ELSE IF Truthy(st.data, st.heap) /\ "json" \notin ClientGlobals
    THEN Raised(Exc("NameError", "name 'json' is not defined", {}, ""))
    ELSE LET body == Truthy(st.data, st.heap)
             data == IF body THEN JsonDumps(st.heap[st.data]) ELSE RawData(st.data, st.heap)
             headers == IF body THEN JsonHeaders ELSE NoHeaders
         IN  IF json.is_websocket = "True"
             THEN IF body
                  THEN Raised(Exc("NotImplementedError",
                                  "Sending body data with websockets not implmented", {}, ""))
                  ELSE TransportCall("ws_connect", "", FixUpScheme(st.uri), st.params,
                                     [t |-> "None", obj |-> {}], NoHeaders)
             ELSE TransportCall("request", json.httpMethod, st.uri, st.params, data, headers)

\* The walk is not running while the client is used.
Idle ==
    /\ processor = "SwaggerProcessor"
    /\ doc = [url |-> Absent, apis |-> <<>>]
    /\ context = NewContext
    /\ ix = [li |-> 0, ai |-> 0, oi |-> 0, pi |-> 0, ei |-> 0, mi |-> 0, qi |-> 0]
    /\ pc = "idle"
    /\ error = NoError
    /\ hooks = <<>>

InitInvoke ==
    /\ Idle
    /\ op = NoOperation
    /\ heap = CallerDicts
    /\ kwargs = {}
    /\ outcome = NoOutcome

\* Operation.__init__
Construct(uri, operation) ==
    /\ op = NoOperation
    /\ op' = [uri |-> uri, json |-> operation]
    /\ UNCHANGED <<heap, kwargs, outcome>>
    /\ UNCHANGED walkVars

\* Operation.__call__(**kw), the caller's dicts freshly built for the call
Invoke(kw) ==
    /\ op # NoOperation
    /\ LET st == BindFrom(op.json.parameters, 1, Locals(op.uri, kw, CallerDicts),
                          op.json.nickname)
       IN  /\ outcome' = Dispatch(op.json, st)
           /\ heap' = st.heap
    /\ kwargs' = kw
    /\ UNCHANGED op
    /\ UNCHANGED walkVars

NextInvoke ==
    \/ \E uri \in {UriHttp, UriHttps}, operation \in OperationJsons : Construct(uri, operation)
    \/ \E kw \in Kwargs : Invoke(kw)

SpecInvoke == InitInvoke /\ [][NextInvoke]_vars

-----------------------------------------------------------------------------
(* Properties of a call *)

HasCalled == outcome.kind # "none"

Declared == { op.json.parameters[i] : i \in 1..Len(op.json.parameters) }
DeclaredNames == { p.name : p \in Declared }
Supplied == Keys(kwargs)
Arg(name) == Get(kwargs, name)

SuppliedOfType(paramType) ==
    { p \in Declared : p.paramType = paramType /\ p.name \in Supplied }

\* A call whose arguments name declared parameters and have values, and that
\* omits only parameters declared with required: false.
ArgsDeclared ==
    /\ HasCalled
    /\ Supplied \subseteq DeclaredNames
    /\ \A n \in Supplied : Arg(n) # NoneV
    /\ \A p \in Declared : p.name \in Supplied \/ p.required = "False"

\* A call the invocation contract accepts: also, every body argument is a
\* mapping.
AcceptedCall ==
    /\ ArgsDeclared
    /\ \A p \in SuppliedOfType("body") : Arg(p.name).t = "dict"

MissingParameter(name) ==
    Exc("TypeError", "missing required parameter", {name}, op.json.nickname)

\* C4: a call that omits the argument of a declared parameter marked required
\* fails with a parameter-binding error (naming the parameter and the
\* nickname when it is the missing-parameter error); a call that supplies
\* every required parameter never fails with the missing-parameter error; and
\* a parameter that is not required -- its 'required' false or not in the
\* declaration -- may be omitted without failure.
RequiredParameter ==
    HasCalled =>
        /\ (\E p \in Declared : p.required = "True" /\ p.name \notin Supplied) =>
              /\ outcome.kind = "raise"
              /\ outcome.exc.exc = "TypeError"
              /\ outcome.exc.what = "missing required parameter" =>
                    \E p \in Declared :
                       /\ p.required = "True" /\ Arg(p.name) = NoneV
                       /\ outcome.exc = MissingParameter(p.name)
        /\ (\A p \in Declared : p.required = "True" => Arg(p.name) # NoneV) =>
              outcome.exc.what # "missing required parameter"
        /\ (/\ Supplied \subseteq DeclaredNames
            /\ \A n \in Supplied : Arg(n) # NoneV
            /\ \A p \in SuppliedOfType("body") : Arg(p.name).t = "dict"
            /\ \A p \in Declared : p.name \in Supplied \/ p.required # "True") =>
              outcome.exc.what \notin {"missing required parameter", "required"}

\* The part of C4 the code keeps: the same, of the operations whose every
\* parameter declaration has a 'required' field.
RequiredParameterDeclared ==
    (\A p \in Declared : p.required # Absent) => RequiredParameter

\* The raises of the loop over the declared parameters.
LoopErrors ==
    {"missing required parameter", "body requires dict", "required", "unsupported paramType"}

\* C5: once all declared parameters are processed, the call fails with the
\* unexpected-parameter error exactly when some supplied argument does not
\* name a declared parameter, and the error lists exactly those names (with
\* the nickname); an argument that names a declared parameter is consumed and
\* never reported.
UnexpectedParameter ==
    (HasCalled /\ outcome.exc.what \notin LoopErrors) =>
        /\ outcome.exc.what = "does not have parameters" <=> Supplied \ DeclaredNames # {}
        /\ outcome.exc.what = "does not have parameters" =>
              outcome.exc = Exc("TypeError", "does not have parameters",
                                Supplied \ DeclaredNames, op.json.nickname)

\* The part of C5 the code keeps: it holds of the arguments that are not None.
UnexpectedParameterNotNone ==
    (HasCalled /\ outcome.exc.what \notin LoopErrors /\ \A n \in Supplied : Arg(n) # NoneV) =>
        /\ outcome.exc.what = "does not have parameters" <=> Supplied \ DeclaredNames # {}
        /\ outcome.exc.what = "does not have parameters" =>
              outcome.exc = Exc("TypeError", "does not have parameters",
                                Supplied \ DeclaredNames, op.json.nickname)

\* The URI with the placeholder of every supplied path parameter replaced by
\* the percent-encoded argument (a list comma-joined first).
RECURSIVE Substituted(_, _)
Substituted(uri, ps) ==
    IF ps = {} THEN uri
    ELSE LET p == CHOOSE q \in ps : TRUE
         IN  Substituted(replace(uri, <<"{">> \o p.name \o <<"}">>,
                                 quote_plus(str(CollapseList(Arg(p.name))))),
                         ps \ {p})

\* The query bundle: the supplied query arguments (a list comma-joined).
QueryBundle == { <<p.name, CollapseList(Arg(p.name))>> : p \in SuppliedOfType("query") }

\* http -> ws, https -> wss
WsScheme(uri) ==
    IF StartsWith(uri, <<"h", "t", "t", "p", "s">>)
    THEN <<"w", "s", "s">> \o SubSeq(uri, 6, Len(uri))
    ELSE IF StartsWith(uri, <<"h", "t", "t", "p">>)
    THEN <<"w", "s">> \o SubSeq(uri, 5, Len(uri))
    ELSE uri

IsWebsocket == op.json.is_websocket = "True"

\* The merge of the supplied body mappings in declaration order, a later
\* one overwriting an earlier one.
RECURSIVE MergedBody(_)
MergedBody(i) ==
    IF i = 0 THEN {}
    ELSE LET p == op.json.parameters[i]
         IN  IF p.paramType = "body" /\ p.name \in Supplied /\ Arg(p.name).t = "dict"
             THEN Update(MergedBody(i - 1), CallerDicts[Arg(p.name).ref])
             ELSE MergedBody(i - 1)

\* C6: each supplied argument goes to one destination by its paramType: a
\* path argument (percent-encoded) replaces the {name} placeholder in the URI
\* passed to the transport and leaves no entry in the query bundle; a query
\* argument is in the query bundle under its name and does not alter the
\* URI; a body argument goes only to the request body.
RoutedByParamType ==
    AcceptedCall =>
        /\ outcome.kind \in {"request", "ws_connect"}
        /\ outcome.uri = (IF IsWebsocket THEN WsScheme(Substituted(op.uri, SuppliedOfType("path")))
                          ELSE Substituted(op.uri, SuppliedOfType("path")))
        /\ outcome.params = QueryBundle
        /\ (~IsWebsocket /\ SuppliedOfType("body") # {}) =>
              outcome.data.obj = MergedBody(Len(op.json.parameters))

\* The part of C6 the code keeps: whenever the transport is called, it gets
\* the substituted URI and the query bundle, and a body argument is in
\* neither.
RoutedWhenCalled ==
    outcome.kind \in {"request", "ws_connect"} =>
        /\ outcome.uri = (IF IsWebsocket THEN WsScheme(Substituted(op.uri, SuppliedOfType("path")))
                          ELSE Substituted(op.uri, SuppliedOfType("path")))
        /\ outcome.params = QueryBundle
        /\ \A p \in SuppliedOfType("body") : p.name \notin Keys(outcome.params)

\* C7: when body parameters are supplied with mappings, the request body
\* sent is their merge in declaration order, a later value overwriting an
\* earlier one on a key collision; a body argument that is not a mapping
\* fails with a type error.
BodyMerge ==
    /\ (AcceptedCall /\ ~IsWebsocket /\ SuppliedOfType("body") # {}) =>
          /\ outcome.kind = "request"
          /\ outcome.data.obj = MergedBody(Len(op.json.parameters))
    /\ (ArgsDeclared /\ \E p \in SuppliedOfType("body") : Arg(p.name).t # "dict") =>
          /\ outcome.kind = "raise"
          /\ outcome.exc.exc = "TypeError"

\* The part of C7 the code keeps: the merge is computed (in the caller's
\* first non-empty mapping), but it is sent only when it is empty.
BodyMergeComputed ==
    (AcceptedCall /\ SuppliedOfType("body") # {}) =>
        IF MergedBody(Len(op.json.parameters)) = {}
        THEN outcome.kind \in {"request", "ws_connect"}
        ELSE /\ outcome.exc.exc = "NameError"
             /\ \E r \in DictIds : heap[r] = MergedBody(Len(op.json.parameters))

\* C8: a call of a websocket operation that supplies a body parameter fails
\* with NotImplementedError and the transport's connect is not called;
\* without body data, connect is called with the URI, its scheme rewritten
\* http -> ws and https -> wss, and the query bundle.
WebsocketCall ==
    (AcceptedCall /\ IsWebsocket) =>
        IF SuppliedOfType("body") # {}
        THEN /\ outcome.kind = "raise"
             /\ outcome.exc.exc = "NotImplementedError"
        ELSE /\ outcome.kind = "ws_connect"
             /\ outcome.uri = WsScheme(Substituted(op.uri, SuppliedOfType("path")))
             /\ outcome.params = QueryBundle

\* The part of C8 the code keeps: the call without a body argument.
WebsocketCallWithoutBody ==
    (AcceptedCall /\ IsWebsocket /\ SuppliedOfType("body") = {}) =>
        /\ outcome.kind = "ws_connect"
        /\ outcome.uri = WsScheme(Substituted(op.uri, SuppliedOfType("path")))
        /\ outcome.params = QueryBundle

\* C9: a call of an operation that is not a websocket calls the transport's
\* request with the JSON Content-Type and Accept headers if and only if a
\* body parameter was supplied (an empty merged mapping included), and with
\* no headers when none was supplied.
JsonHeadersIffBody ==
    (AcceptedCall /\ ~IsWebsocket) =>
        /\ outcome.kind = "request"
        /\ outcome.headers = (IF SuppliedOfType("body") # {} THEN JsonHeaders ELSE NoHeaders)

\* The part of C9 the code keeps: no body argument, no headers.
NoHeadersWithoutBody ==
    (AcceptedCall /\ ~IsWebsocket /\ SuppliedOfType("body") = {}) =>
        /\ outcome.kind = "request"
        /\ outcome.headers = NoHeaders
        /\ outcome.data.t = "None"

\* C10: a call, whether it succeeds or fails, changes no state visible
\* outside it: the Operation's uri template and declaration are as
\* constructed, and the mappings the caller supplied as body arguments hold
\* the entries they held before the call.
CallChangesNothing ==
    [][op # NoOperation => (op' = op /\ heap' = CallerDicts)]_vars

\* The part of C10 the code keeps: the Operation object is never assigned to.
OperationUnchanged ==
    [][op # NoOperation => op' = op]_vars

=============================================================================
